---- MODULE Spec2Model ----
(***************************************************************************)
(* A model of the AVL tree of cathy-sjh/avl-tree: the node engine          *)
(* (src/src/node.rs), the tree facade (src/src/avltree.rs) and the range   *)
(* and traversal iterators (src/src/iterator.rs).                          *)
(*                                                                         *)
(* A Link<K, V> is Nil (None) or a record with the five fields of Node.    *)
(* An Option is the empty tuple (None) or a one-element tuple (Some(x)); a *)
(* pair (&K, &V) is the tuple <<k, v>>.  A panic of the node engine is the *)
(* value Panic, which every operator that receives it hands on.            *)
(***************************************************************************)
EXTENDS Integers, Sequences, FiniteSets, TLC

\* ------------------------------------------------------------ bounds ----
\* keys of the trees checked for the map operations, and of the trees and
\* range bounds checked for the range iterator
MaxKey == 5
MaxIterKey == 4

Keys == 1..MaxKey
IterKeys == 1..MaxIterKey

\* keys of the trees checked for the shape of insert and delete: seven keys
\* reach the rebalancing inside remove_min, eight an insert that rebalances
\* two levels below the root
MaxDeepKey == 9

DeepKeys == 1..MaxDeepKey

\* values are opaque to the code (V has no trait bound): two of them tell
\* an old value from a new one
Values == {1, 2}

\* ------------------------------------------------------- node engine ----
Nil == [nil |-> TRUE]
Panic == [panic |-> TRUE]

None == <<>>
Some(x) == <<x>>

Max(a, b) == IF a >= b THEN a ELSE b

\* Node::new
NewNode(key, value) ==
    [key |-> key, value |-> value, height |-> 1, left |-> Nil, right |-> Nil]

\* assignments self.left = ..., self.right = ... (a panic in the assigned
\* expression unwinds before the assignment happens)
SetLeft(self, l) ==
    IF self = Panic \/ l = Panic THEN Panic ELSE [self EXCEPT !.left = l]

SetRight(self, r) ==
    IF self = Panic \/ r = Panic THEN Panic ELSE [self EXCEPT !.right = r]

is_leaf(self) == self.left = Nil /\ self.right = Nil

height(node) == IF node = Nil THEN 0 ELSE node.height

update_height(self) ==
    IF self = Panic THEN Panic
    ELSE [self EXCEPT !.height = Max(height(self.left), height(self.right)) + 1]

\* left_rotate hanging the new root's left subtree on the wrong side
left_rotate_wrong_side(self) ==
    IF self = Panic \/ self.right = Nil THEN Panic
    ELSE LET new_root == self.right
             old == update_height([self EXCEPT !.right = Nil,
                                               !.left = new_root.left])
         IN  update_height([new_root EXCEPT !.left = old])

left_rotate(self) ==
    IF self = Panic \/ self.right = Nil THEN Panic
    ELSE LET new_root == self.right
             old == update_height([self EXCEPT !.right = new_root.left])
         IN  update_height([new_root EXCEPT !.left = old])

\* right_rotate recomputing the height of the new root only
right_rotate_stale(self) ==
    IF self = Panic \/ self.left = Nil THEN Panic
    ELSE LET new_root == self.left
             old == [self EXCEPT !.left = new_root.right]
         IN  update_height([new_root EXCEPT !.right = old])

right_rotate(self) ==
    IF self = Panic \/ self.left = Nil THEN Panic
    ELSE LET new_root == self.left
             old == update_height([self EXCEPT !.left = new_root.right])
         IN  update_height([new_root EXCEPT !.right = old])

\* left_balance without the rotation of a right-heavy left child
left_balance_single(self) ==
    IF self = Panic \/ self.left = Nil THEN Panic
    ELSE right_rotate(self)

left_balance(self) ==
    IF self = Panic \/ self.left = Nil THEN Panic
    ELSE LET left == self.left
         IN  IF height(left.left) < height(left.right)
             THEN right_rotate(update_height(SetLeft(self, left_rotate(left))))
             ELSE right_rotate(self)

right_balance(self) ==
    IF self = Panic \/ self.right = Nil THEN Panic
    ELSE LET right == self.right
         IN  IF height(right.left) > height(right.right)
             THEN left_rotate(update_height(SetRight(self, right_rotate(right))))
             ELSE left_rotate(self)

diff_of_height(self) == height(self.left) - height(self.right)

\* rotate_if_necessary without its two balance branches
rotate_if_necessary_never(self) == self

\* rotate_if_necessary balancing the side that is not the heavy one
rotate_if_necessary_swapped(self) ==
    IF self = Panic THEN Panic
    ELSE LET diff == diff_of_height(self)
         IN  IF -1 <= diff /\ diff <= 1 THEN self
             ELSE IF diff = -2 THEN left_balance(self)
             ELSE IF diff = 2 THEN right_balance(self)
             ELSE Panic

rotate_if_necessary(self) ==
    IF self = Panic THEN Panic
    ELSE LET diff == diff_of_height(self)
         IN  IF -1 <= diff /\ diff <= 1 THEN self
             ELSE IF diff = -2 THEN right_balance(self)
             ELSE IF diff = 2 THEN left_balance(self)
             ELSE Panic

update_node(self) == rotate_if_necessary(update_height(self))

RECURSIVE insert(_, _, _)
\* insert leaving the old value on an exact key match
insert_keeps_old_value(self, key, value) ==
    IF self.key > key
    THEN IF self.left = Nil
         THEN update_node(SetLeft(self, NewNode(key, value)))
         ELSE update_node(SetLeft(self, insert(self.left, key, value)))
    ELSE IF self.key < key
    THEN IF self.right = Nil
         THEN update_node(SetRight(self, NewNode(key, value)))
         ELSE update_node(SetRight(self, insert(self.right, key, value)))
    ELSE self

\* insert replacing the matching node by a fresh node
insert_fresh_node(self, key, value) ==
    IF self.key > key
    THEN IF self.left = Nil
         THEN update_node(SetLeft(self, NewNode(key, value)))
         ELSE update_node(SetLeft(self, insert(self.left, key, value)))
    ELSE IF self.key < key
    THEN IF self.right = Nil
         THEN update_node(SetRight(self, NewNode(key, value)))
         ELSE update_node(SetRight(self, insert(self.right, key, value)))
    ELSE NewNode(key, value)

insert(self, key, value) ==
    IF self.key > key
    THEN IF self.left = Nil
         THEN update_node(SetLeft(self, NewNode(key, value)))
         ELSE update_node(SetLeft(self, insert(self.left, key, value)))
    ELSE IF self.key < key
    THEN IF self.right = Nil
         THEN update_node(SetRight(self, NewNode(key, value)))
         ELSE update_node(SetRight(self, insert(self.right, key, value)))
    ELSE [self EXCEPT !.value = value]

\* remove_min returns the pair (remaining tree, minimum node); the minimum
\* node keeps its fields except that its right link has been taken.
RECURSIVE remove_min(_)
\* remove_min forgetting the right subtree of the minimum node
remove_min_drops_right(self) ==
    IF self.left # Nil
    THEN LET r == remove_min(self.left)
         IN  IF r = Panic THEN Panic
             ELSE LET rest == update_node(SetLeft(self, r.rest))
                  IN  IF rest = Panic THEN Panic
                      ELSE [rest |-> rest, min |-> r.min]
    ELSE [rest |-> Nil, min |-> [self EXCEPT !.right = Nil]]

remove_min(self) ==
    IF self.left # Nil
    THEN LET r == remove_min(self.left)
         IN  IF r = Panic THEN Panic
             ELSE LET rest == update_node(SetLeft(self, r.rest))
                  IN  IF rest = Panic THEN Panic
                      ELSE [rest |-> rest, min |-> r.min]
    ELSE [rest |-> self.right, min |-> [self EXCEPT !.right = Nil]]

\* combine_two_subtrees hanging the two subtrees on the wrong sides
combine_two_subtrees_swapped(left, right) ==
    LET r == remove_min(right)
    IN  IF r = Panic THEN Panic
        ELSE update_node(SetLeft(SetRight(r.min, left), r.rest))

combine_two_subtrees(left, right) ==
    LET r == remove_min(right)
    IN  IF r = Panic THEN Panic
        ELSE update_node(SetLeft(SetRight(r.min, r.rest), left))

delete_root(self) ==
    IF self.left = Nil /\ self.right = Nil THEN Nil
    ELSE IF self.right = Nil THEN self.left
    ELSE IF self.left = Nil THEN self.right
    ELSE combine_two_subtrees(self.left, self.right)

RECURSIVE delete(_, _)
\* delete dropping the node at which the search for an absent key ends
delete_drops_last(self, key) ==
    IF self.key < key
    THEN IF self.right # Nil
         THEN update_node(SetRight(self, delete(self.right, key)))
         ELSE Nil
    ELSE IF self.key > key
    THEN IF self.left # Nil
         THEN update_node(SetLeft(self, delete(self.left, key)))
         ELSE Nil
    ELSE delete_root(self)

delete(self, key) ==
    IF self.key < key
    THEN IF self.right # Nil
         THEN update_node(SetRight(self, delete(self.right, key)))
         ELSE self
    ELSE IF self.key > key
    THEN IF self.left # Nil
         THEN update_node(SetLeft(self, delete(self.left, key)))
         ELSE self
    ELSE delete_root(self)

RECURSIVE min_pair(_)
\* min_pair stopping one level below the node it is asked about
min_pair_one_level(self) ==
    IF self.left = Nil THEN <<self.key, self.value>>
    ELSE <<self.left.key, self.left.value>>

min_pair(self) ==
    IF self.left = Nil THEN <<self.key, self.value>> ELSE min_pair(self.left)

RECURSIVE max_pair(_)
max_pair(self) ==
    IF self.right = Nil THEN <<self.key, self.value>> ELSE max_pair(self.right)

RECURSIVE search_pair(_, _)
search_pair(self, key) ==
    IF self.key < key
    THEN IF self.right = Nil THEN None ELSE search_pair(self.right, key)
    ELSE IF self.key > key
    THEN IF self.left = Nil THEN None ELSE search_pair(self.left, key)
    ELSE Some(<<self.key, self.value>>)

search(self, key) ==
    LET p == search_pair(self, key)
    IN  IF p = None THEN None ELSE Some(p[1][2])

RECURSIVE successor(_, _)
\* successor not looking into the right subtree on an exact key match
successor_ignores_right(self, key) ==
    IF self.key > key
    THEN IF self.left = Nil THEN Some(<<self.key, self.value>>)
         ELSE LET s == successor(self.left, key)
              IN  IF s # None THEN s ELSE Some(<<self.key, self.value>>)
    ELSE IF self.key < key
    THEN IF self.right = Nil THEN None ELSE successor(self.right, key)
    ELSE None

successor(self, key) ==
    IF self.key > key
    THEN IF self.left = Nil THEN Some(<<self.key, self.value>>)
         ELSE LET s == successor(self.left, key)
              IN  IF s # None THEN s ELSE Some(<<self.key, self.value>>)
    ELSE IF self.key < key
    THEN IF self.right = Nil THEN None ELSE successor(self.right, key)
    ELSE IF self.right = Nil THEN None ELSE Some(min_pair(self.right))

RECURSIVE predecessor(_, _)
predecessor(self, key) ==
    IF self.key < key
    THEN IF self.right = Nil THEN Some(<<self.key, self.value>>)
         ELSE LET s == predecessor(self.right, key)
              IN  IF s # None THEN s ELSE Some(<<self.key, self.value>>)
    ELSE IF self.key > key
    THEN IF self.left = Nil THEN None ELSE predecessor(self.left, key)
    ELSE IF self.left = Nil THEN None ELSE Some(max_pair(self.left))

RECURSIVE prev_order(_)
prev_order(root) ==
    IF root = Nil THEN <<>>
    ELSE <<root.key>> \o prev_order(root.left) \o prev_order(root.right)

RECURSIVE in_order(_)
in_order(root) ==
    IF root = Nil THEN <<>>
    ELSE in_order(root.left) \o <<root.key>> \o in_order(root.right)

RECURSIVE post_order(_)
post_order(root) ==
    IF root = Nil THEN <<>>
    ELSE post_order(root.left) \o post_order(root.right) \o <<root.key>>

\* the while loop of level_order: queue is the VecDeque, buf the output
RECURSIVE level_order_loop(_, _)
\* level_order queueing the right child before the left child
level_order_loop_right_first(queue, buf) ==
    IF queue = <<>> THEN buf
    ELSE LET node == Head(queue)
             q1 == IF node.right # Nil THEN Append(Tail(queue), node.right)
                   ELSE Tail(queue)
             q2 == IF node.left # Nil THEN Append(q1, node.left) ELSE q1
         IN  level_order_loop(q2, Append(buf, node.key))

level_order_loop(queue, buf) ==
    IF queue = <<>> THEN buf
    ELSE LET node == Head(queue)
             q1 == IF node.left # Nil THEN Append(Tail(queue), node.left)
                   ELSE Tail(queue)
             q2 == IF node.right # Nil THEN Append(q1, node.right) ELSE q1
         IN  level_order_loop(q2, Append(buf, node.key))

level_order(root) ==
    level_order_loop(IF root # Nil THEN <<root>> ELSE <<>>, <<>>)

is_avl_node(self) ==
    IF is_leaf(self) THEN TRUE
    ELSE IF ~(self.left = Nil \/ self.left.key < self.key) THEN FALSE
    ELSE IF ~(self.right = Nil \/ self.right.key > self.key) THEN FALSE
    ELSE LET balance == diff_of_height(self)
         IN  ~(balance > 1 \/ balance < -1)

RECURSIVE node_is_avl_tree(_)
node_is_avl_tree(root) ==
    IF root = Nil THEN TRUE
    ELSE IF ~is_avl_node(root) THEN FALSE
    ELSE node_is_avl_tree(root.left) /\ node_is_avl_tree(root.right)

\* ------------------------------------------------------- tree facade ----
\* AVLTree::get_pair, get, contains, min_pair, max_pair, is_avl_tree, ...
get_pair(t, key) == IF t = Nil THEN None ELSE search_pair(t, key)

get(t, key) == IF t = Nil THEN None ELSE search(t, key)

contains(t, key) == get(t, key) # None

is_empty(t) == t = Nil

tree_min_pair(t) == IF t = Nil THEN None ELSE Some(min_pair(t))

tree_max_pair(t) == IF t = Nil THEN None ELSE Some(max_pair(t))

\* is_avl_tree without its test for the empty tree
is_avl_tree_no_empty_case(t) == node_is_avl_tree(t)

is_avl_tree(t) == IF t = Nil THEN FALSE ELSE node_is_avl_tree(t)

tree_successor(t, key) == IF t = Nil THEN None ELSE successor(t, key)

tree_predecessor(t, key) == IF t = Nil THEN None ELSE predecessor(t, key)

\* the loop shared by the four traversal iterators: one get_pair per key,
\* a key whose lookup misses is skipped
RECURSIVE collect_pairs(_, _)
collect_pairs(t, keys) ==
    IF keys = <<>> THEN <<>>
    ELSE LET p == get_pair(t, Head(keys))
         IN  (IF p # None THEN <<p[1]>> ELSE <<>>) \o collect_pairs(t, Tail(keys))

preorder_iter(t) == collect_pairs(t, prev_order(t))

inorder_iter(t) == collect_pairs(t, in_order(t))

postorder_iter(t) == collect_pairs(t, post_order(t))

levelorder_iter(t) == collect_pairs(t, level_order(t))

\* ---------------------------------------------------- range iterator ----
Unbounded == <<"Unbounded">>
Included(k) == <<"Included", k>>
Excluded(k) == <<"Excluded", k>>

NoIter == [none |-> TRUE]

\* RangePairIter::new
RangePairIterNew(lower, upper) == [from |-> lower, to |-> upper, prev |-> None]

get_lower_bound_pair(t, it) ==
    IF it.from[1] = "Included"
    THEN LET p == get_pair(t, it.from[2])
         IN  IF p # None THEN p ELSE tree_successor(t, it.from[2])
    ELSE IF it.from[1] = "Excluded" THEN tree_successor(t, it.from[2])
    ELSE tree_min_pair(t)

get_next_pair(t, it) ==
    IF it.prev = None THEN get_lower_bound_pair(t, it)
    ELSE tree_successor(t, it.prev[1])

\* check_upper_bound letting the key of an Excluded upper bound pass
check_upper_bound_inclusive(it, current) ==
    LET ok == IF it.to[1] = "Included" THEN current[1] <= it.to[2]
              ELSE IF it.to[1] = "Excluded" THEN current[1] <= it.to[2]
              ELSE TRUE
    IN  IF ok THEN Some(current) ELSE None

check_upper_bound(it, current) ==
    LET ok == IF it.to[1] = "Included" THEN current[1] <= it.to[2]
              ELSE IF it.to[1] = "Excluded" THEN current[1] < it.to[2]
              ELSE TRUE
    IN  IF ok THEN Some(current) ELSE None

\* get_next_key_under remembering the candidate before the upper bound check
get_next_key_under_remembers(t, it) ==
    LET cur == get_next_pair(t, it)
        res == IF cur = None THEN None ELSE check_upper_bound(it, cur[1])
    IN  [res |-> res,
         it  |-> IF cur # None THEN [it EXCEPT !.prev = Some(cur[1][1])] ELSE it]

\* get_next_key_under returns the item and the iterator as it leaves it
get_next_key_under(t, it) ==
    LET cur == get_next_pair(t, it)
        res == IF cur = None THEN None ELSE check_upper_bound(it, cur[1])
    IN  [res |-> res,
         it  |-> IF res # None THEN [it EXCEPT !.prev = Some(res[1][1])] ELSE it]

\* ------------------------------------------------------------- state ----
VARIABLES
    root,       \* AVLTree.root
    panicked,   \* a call has panicked
    lastOp,     \* the last call made
    lastKey,    \* its key argument (0 when it has none)
    lastVal,    \* its value argument (0 when it has none)
    prevRoot,   \* the root before the last call
    result,     \* what the last query returned
    iter,       \* the live RangePairIter, NoIter when there is none
    yielded,    \* the pairs the live iterator has yielded so far
    exhausted   \* the live iterator has returned None

vars == <<root, panicked, lastOp, lastKey, lastVal, prevRoot, result, iter,
          yielded, exhausted>>

\* AVLTree::new
Init ==
    /\ root = Nil
    /\ panicked = FALSE
    /\ lastOp = "new"
    /\ lastKey = 0
    /\ lastVal = 0
    /\ prevRoot = Nil
    /\ result = None
    /\ iter = NoIter
    /\ yielded = <<>>
    /\ exhausted = FALSE

\* a mutating call needs &mut self: no iterator is alive across it.  The
\* root is taken before the node engine runs, so a panic leaves it None.
Mutate(op, key, value, new) ==
    /\ root' = IF new = Panic THEN Nil ELSE new
    /\ panicked' = (panicked \/ new = Panic)
    /\ lastOp' = op
    /\ lastKey' = key
    /\ lastVal' = value
    /\ prevRoot' = root
    /\ result' = None
    /\ iter' = NoIter
    /\ yielded' = <<>>
    /\ exhausted' = FALSE

\* AVLTree::insert
Insert(key, value) ==
    Mutate("insert", key, value,
           IF root = Nil THEN NewNode(key, value) ELSE insert(root, key, value))

\* AVLTree::delete
Delete(key) ==
    Mutate("delete", key, 0, IF root = Nil THEN root ELSE delete(root, key))

\* a read-only call; the caller has let go of any range iterator
Query(op, key, res) ==
    /\ lastOp' = op
    /\ lastKey' = key
    /\ lastVal' = 0
    /\ prevRoot' = root
    /\ result' = res
    /\ iter' = NoIter
    /\ yielded' = <<>>
    /\ exhausted' = FALSE
    /\ UNCHANGED <<root, panicked>>

Successor(key) == Query("successor", key, tree_successor(root, key))

Predecessor(key) == Query("predecessor", key, tree_predecessor(root, key))

PreorderIter == Query("preorder_iter", 0, preorder_iter(root))

InorderIter == Query("inorder_iter", 0, inorder_iter(root))

PostorderIter == Query("postorder_iter", 0, postorder_iter(root))

LevelorderIter == Query("levelorder_iter", 0, levelorder_iter(root))

MinPair == Query("min_pair", 0, tree_min_pair(root))

MaxPair == Query("max_pair", 0, tree_max_pair(root))

\* AVLTree::range_pair_iter; the model follows one iterator at a time, a new
\* one is made when none is alive
RangePairIter(lower, upper) ==
    /\ iter = NoIter
    /\ lastOp' = "range_pair_iter"
    /\ lastKey' = 0
    /\ lastVal' = 0
    /\ prevRoot' = root
    /\ result' = None
    /\ iter' = RangePairIterNew(lower, upper)
    /\ yielded' = <<>>
    /\ exhausted' = FALSE
    /\ UNCHANGED <<root, panicked>>

\* Iterator::next of RangePairIter
IterNext ==
    /\ iter # NoIter
    /\ LET r == get_next_key_under(root, iter)
       IN  /\ iter' = r.it
           /\ result' = r.res
           /\ yielded' = IF r.res # None THEN Append(yielded, r.res[1]) ELSE yielded
           /\ exhausted' = (exhausted \/ r.res = None)
    /\ lastOp' = "next"
    /\ UNCHANGED <<root, panicked, lastKey, lastVal, prevRoot>>

\* query keys reach one below and one above the stored keys
QueryKeys == 0..(MaxKey + 1)

BoundsOver(S) ==
    {Unbounded} \cup {Included(k) : k \in S} \cup {Excluded(k) : k \in S}

NextInsert == \E k \in Keys, v \in Values : Insert(k, v)
NextDelete == \E k \in Keys : Delete(k)
NextSuccessor == \E q \in QueryKeys : Successor(q)
NextPredecessor == \E q \in QueryKeys : Predecessor(q)

Next ==
    \/ NextInsert
    \/ NextDelete
    \/ NextSuccessor
    \/ NextPredecessor
    \/ PreorderIter
    \/ InorderIter
    \/ PostorderIter
    \/ LevelorderIter
    \/ MinPair
    \/ MaxPair

Spec == Init /\ [][Next]_vars

\* the range iterator over the trees with keys in IterKeys
IterInsert == \E k \in IterKeys, v \in Values : Insert(k, v)
IterDelete == \E k \in IterKeys : Delete(k)
IterRange == \E lo \in BoundsOver(IterKeys), hi \in BoundsOver(IterKeys) :
                 RangePairIter(lo, hi)

NextIter ==
    \/ IterInsert
    \/ IterDelete
    \/ IterRange
    \/ IterNext

SpecIter == Init /\ [][NextIter]_vars

\* insert and delete alone, over the trees with keys in DeepKeys and one value
DeepInsert == \E k \in DeepKeys : Insert(k, 1)
DeepDelete == \E k \in DeepKeys : Delete(k)

NextDeep ==
    \/ DeepInsert
    \/ DeepDelete

SpecDeep == Init /\ [][NextDeep]_vars

\* ------------------------------------------------ auxiliary notions ----
\* the nodes of a tree, each a record
RECURSIVE Nodes(_)
Nodes(t) == IF t = Nil THEN {} ELSE {t} \cup Nodes(t.left) \cup Nodes(t.right)

KeysOf(t) == {n.key : n \in Nodes(t)}

\* the paths (0 = left, 1 = right) from the root of t to its nodes
RECURSIVE Paths(_)
Paths(t) ==
    IF t = Nil THEN {}
    ELSE {<<>>} \cup {<<0>> \o p : p \in Paths(t.left)}
                \cup {<<1>> \o p : p \in Paths(t.right)}

RECURSIVE NodeAt(_, _)
NodeAt(t, p) ==
    IF p = <<>> THEN t
    ELSE NodeAt(IF Head(p) = 0 THEN t.left ELSE t.right, Tail(p))

ValueIn(t, k) == (CHOOSE n \in Nodes(t) : n.key = k).value

\* the stored pairs, read off the nodes
PairsOf(t) == {<<n.key, n.value>> : n \in Nodes(t)}

\* the height of a tree counted from its links, not from the cached field
RECURSIVE TrueHeight(_)
TrueHeight(t) ==
    IF t = Nil THEN 0 ELSE 1 + Max(TrueHeight(t.left), TrueHeight(t.right))

\* a set of pairs as the sequence in ascending key order
RECURSIVE SortedPairs(_)
SortedPairs(S) ==
    IF S = {} THEN <<>>
    ELSE LET m == CHOOSE p \in S : \A q \in S : p[1] <= q[1]
         IN  <<m>> \o SortedPairs(S \ {m})

StrictlyAscending(seq) ==
    \A i \in 1..(Len(seq) - 1) : seq[i][1] < seq[i + 1][1]

\* a tree with every value erased: positions, links, keys, cached heights
RECURSIVE Shape(_)
Shape(t) ==
    IF t = Nil THEN Nil
    ELSE [t EXCEPT !.value = 0, !.left = Shape(t.left), !.right = Shape(t.right)]

\* the number of nodes on insert's path at which rotate_if_necessary takes
\* a balance branch (left_balance or right_balance)
Rebalances(self) ==
    IF self = Panic THEN 0
    ELSE IF diff_of_height(self) \in {-2, 2} THEN 1 ELSE 0

RECURSIVE insert_rebalances(_, _, _)
insert_rebalances(self, key, value) ==
    IF self.key > key
    THEN IF self.left = Nil
         THEN Rebalances(update_height(SetLeft(self, NewNode(key, value))))
         ELSE insert_rebalances(self.left, key, value)
              + Rebalances(update_height(SetLeft(self, insert(self.left, key, value))))
    ELSE IF self.key < key
    THEN IF self.right = Nil
         THEN Rebalances(update_height(SetRight(self, NewNode(key, value))))
         ELSE insert_rebalances(self.right, key, value)
              + Rebalances(update_height(SetRight(self, insert(self.right, key, value))))
    ELSE 0

\* ------------------------------------------------------------ claims ----
\* C1: after any sequence of insert and delete calls that leaves the tree
\* non-empty, is_avl_tree() returns true, and at every node the heights of
\* the left and right subtrees (counted from the links) differ by at most 1.
C1_Balanced ==
    root # Nil =>
        /\ is_avl_tree(root)
        /\ \A n \in Nodes(root) :
               TrueHeight(n.left) - TrueHeight(n.right) \in {-1, 0, 1}

\* a delete that re-rooted a tree of at least four nodes
C1_Witness ==
    /\ lastOp = "delete"
    /\ Cardinality(KeysOf(root)) >= 4
    /\ lastKey # prevRoot.key
    /\ root.key # prevRoot.key

\* C2: inorder_iter() yields keys in strictly ascending order, and at every
\* node every key of the left subtree is smaller and every key of the right
\* subtree is larger than the node's key.
C2_Ordered ==
    /\ StrictlyAscending(inorder_iter(root))
    /\ Len(inorder_iter(root)) = Cardinality(Paths(root))
    /\ \A n \in Nodes(root) :
           /\ \A k \in KeysOf(n.left) : k < n.key
           /\ \A k \in KeysOf(n.right) : k > n.key

\* a delete has rotated the root to the left and moved the new root's
\* former left subtree under the old root
C2_Witness ==
    /\ lastOp = "delete"
    /\ prevRoot # Nil /\ prevRoot.right # Nil /\ prevRoot.right.left # Nil
    /\ root # Nil /\ root.key = prevRoot.right.key
    /\ root.left # Nil /\ root.left.key = prevRoot.key
    /\ root.left.right # Nil /\ root.left.right.key = prevRoot.right.left.key

\* C3: right after insert(k, v), get(k) = Some(v) and contains(k); right
\* after delete(k), get(k) = None and not contains(k).
C3_RoundTrip ==
    /\ lastOp = "insert" =>
           get(root, lastKey) = Some(lastVal) /\ contains(root, lastKey)
    /\ lastOp = "delete" =>
           get(root, lastKey) = None /\ ~contains(root, lastKey)

\* an insert that overwrote a value below the root
C3_Witness ==
    /\ lastOp = "insert"
    /\ contains(prevRoot, lastKey)
    /\ get(prevRoot, lastKey) # Some(lastVal)
    /\ root.key # lastKey

\* a delete that removed a stored key and rotated
C3_WitnessDelete ==
    /\ lastOp = "delete"
    /\ contains(prevRoot, lastKey)
    /\ root # Nil /\ root.key # prevRoot.key /\ prevRoot.key # lastKey

\* C4: insert(k, v) and delete(k) leave get(j) as it was for every j # k,
\* and the in-order sequence of pairs afterwards is the one before with k's
\* pair added or replaced (insert) or removed (delete).
C4_Frame ==
    lastOp \in {"insert", "delete"} =>
        /\ \A j \in (0..(MaxKey + 1)) \ {lastKey} :
               get(root, j) = get(prevRoot, j)
        /\ LET others == {p \in PairsOf(prevRoot) : p[1] # lastKey}
           IN  inorder_iter(root) =
                   SortedPairs(IF lastOp = "insert"
                               THEN others \cup {<<lastKey, lastVal>>}
                               ELSE others)

\* a delete of a node with two children whose successor had a right child
C4_Witness ==
    /\ lastOp = "delete"
    /\ \E n \in Nodes(prevRoot) :
           /\ n.key = lastKey
           /\ n.left # Nil /\ n.right # Nil
           /\ n.right.left = Nil /\ n.right.right # Nil

\* C5: insert(k, v2) on a tree that contains k changes get(k) to v2 and
\* leaves the shape unchanged: the same positions, links, keys and cached
\* heights, every other value, and no rebalancing at any node of the path.
C5_Overwrite ==
    (lastOp = "insert" /\ contains(prevRoot, lastKey)) =>
        /\ get(root, lastKey) = Some(lastVal)
        /\ Shape(root) = Shape(prevRoot)
        /\ Paths(root) = Paths(prevRoot)
        /\ \A p \in Paths(root) :
               NodeAt(root, p).key # lastKey =>
                   NodeAt(root, p).value = NodeAt(prevRoot, p).value
        /\ insert_rebalances(prevRoot, lastKey, lastVal) = 0

\* an overwrite with a new value of a key that has children and a parent
C5_Witness ==
    /\ lastOp = "insert"
    /\ get(prevRoot, lastKey) # None
    /\ get(prevRoot, lastKey) # Some(lastVal)
    /\ \E n \in Nodes(root) :
           n.key = lastKey /\ n # root /\ ~is_leaf(n)

\* C6: delete(k) of a key that is not stored raises no error and returns
\* the tree unchanged (shape, cached heights, keys, values, in-order
\* output); on the empty tree it leaves the tree empty.
C6_DeleteAbsent ==
    (lastOp = "delete" /\ ~contains(prevRoot, lastKey)) =>
        /\ ~panicked
        /\ root = prevRoot
        /\ inorder_iter(root) = inorder_iter(prevRoot)
        /\ prevRoot = Nil => is_empty(root)

\* a delete of an absent key whose search ended two levels down
C6_Witness ==
    /\ lastOp = "delete"
    /\ ~contains(prevRoot, lastKey)
    /\ prevRoot # Nil
    /\ TrueHeight(prevRoot) = 3
    /\ lastKey > prevRoot.key /\ prevRoot.right # Nil
    /\ lastKey < prevRoot.right.key /\ prevRoot.right.left # Nil

\* a delete on the empty tree
C6_WitnessEmpty == lastOp = "delete" /\ prevRoot = Nil /\ root = Nil

\* the pair stored at the node a path leads to
PairAt(t, p) == <<NodeAt(t, p).key, NodeAt(t, p).value>>

IsProperPrefix(p, q) ==
    Len(p) < Len(q) /\ \A i \in 1..Len(p) : p[i] = q[i]

\* p turns left and q turns right where the two paths part
PartsLeft(p, q) ==
    \E i \in 1..Len(p) :
        /\ i <= Len(q)
        /\ \A j \in 1..(i - 1) : p[j] = q[j]
        /\ p[i] = 0 /\ q[i] = 1

\* the four visiting orders, as orders on the positions of a tree
PreBefore(p, q) == IsProperPrefix(p, q) \/ PartsLeft(p, q)

InBefore(p, q) ==
    \/ PartsLeft(p, q)
    \/ IsProperPrefix(p, q) /\ q[Len(p) + 1] = 1
    \/ IsProperPrefix(q, p) /\ p[Len(q) + 1] = 0

PostBefore(p, q) == IsProperPrefix(q, p) \/ PartsLeft(p, q)

LevelBefore(p, q) ==
    Len(p) < Len(q) \/ (Len(p) = Len(q) /\ PartsLeft(p, q))

\* the pairs of a tree, one per position, in the order Before
Visit(t, Before(_, _)) ==
    [i \in 1..Cardinality(Paths(t)) |->
        PairAt(t, CHOOSE p \in Paths(t) :
                     Cardinality({q \in Paths(t) : Before(q, p)}) = i - 1)]

\* whether a key satisfies a lower and an upper bound
AboveLower(lo, k) ==
    \/ lo[1] = "Unbounded"
    \/ lo[1] = "Included" /\ k >= lo[2]
    \/ lo[1] = "Excluded" /\ k > lo[2]

BelowUpper(hi, k) ==
    \/ hi[1] = "Unbounded"
    \/ hi[1] = "Included" /\ k <= hi[2]
    \/ hi[1] = "Excluded" /\ k < hi[2]

InRange(t, lo, hi) ==
    SortedPairs({p \in PairsOf(t) : AboveLower(lo, p[1]) /\ BelowUpper(hi, p[1])})

\* C7: successor(q) returns the pair with the smallest stored key strictly
\* greater than q, with its stored value, or nothing when no stored key is
\* greater; predecessor(q) the pair with the largest stored key strictly
\* smaller than q, or nothing; whether or not q is stored.
C7_SuccessorPredecessor ==
    /\ lastOp = "successor" =>
           LET above == {k \in KeysOf(root) : k > lastKey}
           IN  IF above = {} THEN result = None
               ELSE LET m == CHOOSE k \in above : \A j \in above : k <= j
                    IN  result = Some(<<m, ValueIn(root, m)>>)
    /\ lastOp = "predecessor" =>
           LET below == {k \in KeysOf(root) : k < lastKey}
           IN  IF below = {} THEN result = None
               ELSE LET m == CHOOSE k \in below : \A j \in below : k >= j
                    IN  result = Some(<<m, ValueIn(root, m)>>)

\* successor of a stored key that has a right subtree, answered from it
C7_Witness ==
    /\ lastOp = "successor"
    /\ result # None
    /\ \E n \in Nodes(root) :
           n.key = lastKey /\ n.right # Nil /\ n.right.left # Nil
                           /\ result[1][1] = n.right.left.key

\* successor of an absent key answered by an ancestor; nothing above the top
C7_WitnessAbsent ==
    /\ lastOp = "successor"
    /\ ~contains(root, lastKey)
    /\ result # None /\ result[1][1] = root.key /\ root.left # Nil

\* predecessor of an absent key and of the smallest key
C7_WitnessPredecessor ==
    /\ lastOp = "predecessor"
    /\ ~contains(root, lastKey)
    /\ result # None /\ root.right # Nil /\ result[1][1] > root.key

\* C8: range_pair_iter(lower, upper) yields exactly the stored pairs whose
\* key satisfies both bounds, each once, in strictly ascending key order:
\* what it has yielded is always the beginning of that sequence, and all of
\* it once next() has returned nothing.
C8_Range ==
    iter # NoIter =>
        LET want == InRange(root, iter.from, iter.to)
        IN  /\ Len(yielded) <= Len(want)
            /\ yielded = SubSeq(want, 1, Len(yielded))
            /\ exhausted => yielded = want
            /\ StrictlyAscending(yielded)

\* a finished iteration from an absent Included key to an Excluded stored key
C8_Witness ==
    /\ iter # NoIter /\ exhausted
    /\ iter.from[1] = "Included" /\ ~contains(root, iter.from[2])
    /\ iter.to[1] = "Excluded" /\ contains(root, iter.to[2])
    /\ Len(yielded) >= 1
    /\ \E k \in KeysOf(root) : k > iter.to[2]

\* a finished iteration whose lower bound lies above its upper bound
C8_WitnessCrossed ==
    /\ iter # NoIter /\ exhausted
    /\ iter.from[1] = "Excluded" /\ iter.to[1] = "Included"
    /\ iter.from[2] > iter.to[2]
    /\ contains(root, iter.from[2]) /\ contains(root, iter.to[2])
    /\ \E k \in KeysOf(root) : k > iter.from[2]

\* C9: a range iterator over a tree with n keys yields at most n pairs and
\* returns nothing at the next call once it has yielded n; once next() has
\* returned nothing, a later next() returns nothing again, yields nothing
\* and leaves the remembered previous key as it is; no call panics.
C9_Step ==
    (iter # NoIter /\ lastOp' = "next") =>
        /\ (Len(yielded) = Cardinality(Paths(root)) => result' = None)
        /\ exhausted =>
               /\ result' = None
               /\ iter'.prev = iter.prev
               /\ yielded' = yielded
               /\ exhausted'
        /\ ~panicked'

C9_Terminates ==
    /\ [](iter # NoIter => Len(yielded) <= Cardinality(Paths(root)))
    /\ [][C9_Step]_vars

\* next() polled again after the upper bound has stopped the iteration
C9_Witness ==
    /\ iter # NoIter /\ exhausted
    /\ lastOp = "next" /\ result = None
    /\ iter.prev # None
    /\ tree_successor(root, iter.prev[1]) # None

\* C10: preorder_iter, inorder_iter, postorder_iter and levelorder_iter
\* each yield the pair of every node exactly once, in pre-order (node, left,
\* right), in-order (left, node, right), post-order (left, right, node) and
\* level-order (breadth-first, left before right) of the tree's shape.
C10_Traversals ==
    /\ lastOp = "preorder_iter" => result = Visit(root, PreBefore)
    /\ lastOp = "inorder_iter" => result = Visit(root, InBefore)
    /\ lastOp = "postorder_iter" => result = Visit(root, PostBefore)
    /\ lastOp = "levelorder_iter" => result = Visit(root, LevelBefore)
    /\ lastOp \in {"preorder_iter", "inorder_iter", "postorder_iter",
                    "levelorder_iter"} =>
           /\ Len(result) = Cardinality(KeysOf(root))
           /\ {result[i] : i \in 1..Len(result)} = PairsOf(root)

\* a level-order traversal of a tree of height 3 with both children
C10_Witness ==
    /\ lastOp = "levelorder_iter"
    /\ root # Nil /\ root.left # Nil /\ root.right # Nil
    /\ TrueHeight(root) = 3
    /\ root.left.right # Nil /\ root.right.left # Nil
    /\ Len(result) = 5

\* C11: is_empty() is true exactly when no key is stored: for the new
\* tree, not after an insert, and again once the last stored key has been
\* deleted; is_avl_tree() is false in exactly the empty states, and true of
\* a tree of a single node.
C11_Empty ==
    /\ is_empty(root) <=> (\A k \in 0..(MaxKey + 1) : ~contains(root, k))
    /\ lastOp = "new" => is_empty(root)
    /\ lastOp = "insert" => ~is_empty(root)
    /\ lastOp = "delete" =>
           (is_empty(root) <=> KeysOf(prevRoot) \subseteq {lastKey})
    /\ is_avl_tree(root) <=> ~is_empty(root)
    /\ (root # Nil /\ is_leaf(root)) => is_avl_tree(root)

\* the delete of the only stored key has emptied the tree
C11_Witness ==
    /\ lastOp = "delete"
    /\ prevRoot # Nil /\ is_leaf(prevRoot) /\ prevRoot.key = lastKey
    /\ is_empty(root) /\ ~is_avl_tree(root)

\* C12: min_pair() returns the pair with the smallest stored key and
\* max_pair() the pair with the largest stored key, each with its stored
\* value; both return nothing exactly when the tree is empty.
C12_MinMax ==
    /\ lastOp = "min_pair" =>
           /\ result = None <=> is_empty(root)
           /\ root # Nil =>
                  /\ result[1] \in PairsOf(root)
                  /\ \A k \in KeysOf(root) : result[1][1] <= k
    /\ lastOp = "max_pair" =>
           /\ result = None <=> is_empty(root)
           /\ root # Nil =>
                  /\ result[1] \in PairsOf(root)
                  /\ \A k \in KeysOf(root) : result[1][1] >= k

\* min_pair answered from two levels below the root
C12_Witness ==
    /\ lastOp = "min_pair"
    /\ root # Nil /\ root.left # Nil /\ root.left.left # Nil
    /\ result = Some(<<root.left.left.key, root.left.left.value>>)

\* max_pair answered from two levels below the root, and on the empty tree
C12_WitnessMax ==
    /\ lastOp = "max_pair"
    /\ root # Nil /\ root.right # Nil /\ root.right.right # Nil
    /\ result = Some(<<root.right.right.key, root.right.right.value>>)

\* the node of a tree that holds a key
NodeOf(t, k) == CHOOSE n \in Nodes(t) : n.key = k

\* the last call was a delete that reached a node with two children
TwoChildDelete ==
    /\ lastOp = "delete"
    /\ contains(prevRoot, lastKey)
    /\ NodeOf(prevRoot, lastKey).left # Nil
    /\ NodeOf(prevRoot, lastKey).right # Nil

\* C13: after every insert or delete the cached height of every node is
\* 1 + max(height(left), height(right)), an absent child counting 0, so a
\* leaf has height 1; rotations, remove_min, the two-child merge and the
\* promotion of a single child leave no stale height.
C13_Heights ==
    \A n \in Nodes(root) :
        /\ n.height = 1 + Max(height(n.left), height(n.right))
        /\ n.height = TrueHeight(n)
        /\ is_leaf(n) => n.height = 1

\* a two-child delete whose remove_min went down a level and rebalanced on
\* the way back, and which made the whole tree lower
C13_Witness ==
    /\ TwoChildDelete
    /\ LET n == NodeOf(prevRoot, lastKey)
       IN  /\ n.right.left # Nil
           /\ is_leaf(n.right.left)
           /\ n.right.right # Nil /\ n.right.right.height = 2
    /\ root.height = prevRoot.height - 1

\* a delete that promoted the single child of the deleted node
C13_WitnessPromote ==
    /\ lastOp = "delete"
    /\ contains(prevRoot, lastKey)
    /\ NodeOf(prevRoot, lastKey).left # Nil
    /\ NodeOf(prevRoot, lastKey).right = Nil
    /\ prevRoot.key # lastKey

\* C14: no sequence of insert and delete calls reaches a fatal path: no
\* rotation misses the child it requires and rotate_if_necessary never sees
\* a height difference outside -2..2, so no call panics; the tree a call
\* leaves behind is not the emptied root of an unwound panic.
C14_NoPanic ==
    /\ ~panicked
    /\ \A k \in DeepKeys :
           /\ root # Nil => insert(root, k, 1) # Panic
           /\ root # Nil => delete(root, k) # Panic
    /\ \A n \in Nodes(root) : diff_of_height(n) \in -1..1

\* a two-child delete whose remove_min rebalanced the rest of the right
\* subtree with a right_balance
C14_Witness ==
    /\ TwoChildDelete
    /\ ~panicked
    /\ LET n == NodeOf(prevRoot, lastKey)
       IN  /\ n.right.left # Nil /\ is_leaf(n.right.left)
           /\ n.right.right # Nil /\ n.right.right.height = 2
           /\ remove_min(n.right).rest.key # n.right.key

\* a two-child delete whose merge rebalanced the new root with a left_balance
C14_WitnessMerge ==
    /\ TwoChildDelete
    /\ ~panicked
    /\ LET n == NodeOf(prevRoot, lastKey)
       IN  /\ is_leaf(n.right)
           /\ n.left.height = 2
           /\ delete_root(n).key \in KeysOf(n.left)

MinKey(S) == CHOOSE k \in S : \A j \in S : k <= j

\* C15 as stated: the subtree that takes the place of a deleted node with
\* two children is rooted at the smallest key of the former right subtree,
\* with the former left subtree as its left child and the former right
\* subtree minus that minimum as its right child.
C15_AsStated ==
    TwoChildDelete =>
        LET n == NodeOf(prevRoot, lastKey)
            m == MinKey(KeysOf(n.right))
            installed == delete_root(n)
        IN  /\ installed.key = m
            /\ installed.left = n.left
            /\ KeysOf(installed.right) = KeysOf(n.right) \ {m}

\* C15 (amended): the minimum node of the right subtree takes the place of a
\* deleted node with two children, with the former left subtree as its left
\* child and the former right subtree minus that minimum as its right child,
\* and is then rebalanced: it roots the installed subtree unless the left
\* subtree was the higher one and is now two higher than what remains on
\* the right; then a left_balance makes a key of the former left subtree the
\* root and the minimum moves into its right subtree.  The installed
\* subtree holds the pairs of the old one but the deleted one.
C15_Replacement ==
    TwoChildDelete =>
        LET n == NodeOf(prevRoot, lastKey)
            m == MinKey(KeysOf(n.right))
            installed == delete_root(n)
        IN  /\ installed # Panic /\ installed # Nil
            /\ PairsOf(installed) = PairsOf(n) \ {<<n.key, n.value>>}
            /\ installed.key = m =>
                   /\ installed.value = ValueIn(n.right, m)
                   /\ installed.left = n.left
                   /\ KeysOf(installed.right) = KeysOf(n.right) \ {m}
            /\ installed.key # m =>
                   /\ TrueHeight(n.left) = TrueHeight(n.right) + 1
                   /\ installed.key \in KeysOf(n.left)
                   /\ m \in KeysOf(installed.right)
                   /\ TrueHeight(installed.left) = TrueHeight(installed.right)
                      \/ TrueHeight(installed.left) + 1 = TrueHeight(installed.right)
            /\ TrueHeight(n.left) <= TrueHeight(n.right) => installed.key = m
            /\ prevRoot.key = lastKey => root = installed

\* the minimum, found two levels down the right subtree, has taken the place
\* of the deleted root
C15_Witness ==
    /\ TwoChildDelete
    /\ prevRoot.key = lastKey
    /\ prevRoot.right.left # Nil /\ prevRoot.right.left.left # Nil
    /\ root.key = prevRoot.right.left.left.key
    /\ root.left = prevRoot.left

\* the merge has been rebalanced: a key of the former left subtree is the root
C15_WitnessRebalanced ==
    /\ TwoChildDelete
    /\ prevRoot.key = lastKey
    /\ root.key \in KeysOf(prevRoot.left)

\* C16: an insert of a new key rebalances at most once on the whole path
\* from the new leaf to the root (one left_balance or right_balance); every
\* node above the rebalanced one sees a height difference in -1..1 and
\* stays where it is.
C16_OneRebalance ==
    (lastOp = "insert" /\ prevRoot # Nil /\ ~contains(prevRoot, lastKey)) =>
        /\ ~panicked /\ root # Nil
        /\ insert_rebalances(prevRoot, lastKey, lastVal) <= 1
        /\ insert_rebalances(prevRoot, lastKey, lastVal) = 1 =>
               \/ root.key # prevRoot.key
               \/ /\ root.height = prevRoot.height
                  /\ \/ root.left = prevRoot.left
                     \/ root.right = prevRoot.right

\* an insert that rebalanced two levels below the root, which stayed
C16_Witness ==
    /\ lastOp = "insert"
    /\ prevRoot # Nil /\ ~contains(prevRoot, lastKey)
    /\ insert_rebalances(prevRoot, lastKey, lastVal) = 1
    /\ root.key = prevRoot.key
    /\ lastKey < root.key
    /\ root.left.key = prevRoot.left.key
    /\ root.left # prevRoot.left

====
